---- MODULE Spec2Model ----
(***************************************************************************)
(* Model of badgerdb::BufMgr (src/buffer.cpp): a buffer pool of NumBufs    *)
(* frames with a clock replacement policy, a hash index from (file, page)  *)
(* to frame, and the pin / dirty protocol.  Every public method is one     *)
(* action; allocBuf and flushFile are computed by the loops of the code.   *)
(* BufDesc, BufHashTbl and File are collaborators whose code is not in     *)
(* src/; they are modelled from the specification.                         *)
(***************************************************************************)
EXTENDS Integers, Sequences, FiniteSets, TLC

\* ---- bounds of the model ----
\* NumBufs is the constructor's argument bufs; MaxPin caps BufDesc::pinCnt.
NumBufs == 2
MaxPin == 2

Frames == 0 .. (NumBufs - 1)

\* The callers' files and the page numbers a file can hold: two files of two
\* pages each, so that the pages outnumber the frames and a file can be told
\* from another file.
Files == {1, 2}
Pages == {1, 2}
NoFile == 0
NoPage == 0
NoFrame == NumBufs
ScanLimit == 4 * NumBufs + 4

VARIABLES bufDescTable, hashTable, clockHand, allocated, alive, last

vars == <<bufDescTable, hashTable, clockHand, allocated, alive, last>>

\* ---- BufDesc ----
BufDescClear ==
  [file |-> NoFile, pageNo |-> NoPage, pinCnt |-> 0,
   dirty |-> FALSE, valid |-> FALSE, refbit |-> FALSE]

BufDescSet(file, pageNo) ==
  [file |-> file, pageNo |-> pageNo, pinCnt |-> 1,
   dirty |-> FALSE, valid |-> TRUE, refbit |-> TRUE]

\* ---- BufHashTbl: a set of entries (file, page) -> frame ----
HashEntry(file, pageNo, frame) == [file |-> file, page |-> pageNo, frame |-> frame]

hashPresent(ht, file, pageNo) == \E e \in ht : e.file = file /\ e.page = pageNo

hashLookup(ht, file, pageNo) ==
  IF hashPresent(ht, file, pageNo)
    THEN (CHOOSE e \in ht : e.file = file /\ e.page = pageNo).frame
    ELSE NoFrame

hashInsert(ht, file, pageNo, frame) == ht \cup {HashEntry(file, pageNo, frame)}

hashRemove(ht, file, pageNo) == {e \in ht : ~(e.file = file /\ e.page = pageNo)}

\* ---- File ----
fileHasPage(alloc, file, pageNo) == pageNo \in alloc[file]

\* ---- events an operation performs, in order ----
Ev(kind, file, pageNo) == [e |-> kind, file |-> file, page |-> pageNo]

\* ---- advanceClock ----
advanceClock(hand) == (hand + 1) % NumBufs

\* ---- allocBuf ----
\* Each test of the loop is an operator; the _m operator before it is a faulty
\* variant of the same line (a wrong limit, an off-by-one pin test, a forgotten
\* index removal) that the properties below must tell apart from the code.
allocBufExceeded_m(pcount) == pcount = 2 * NumBufs
allocBufExceeded(pcount) == pcount = NumBufs

allocBufPinned_m(d) == d.pinCnt > 1
allocBufPinned(d) == d.pinCnt > 0

allocBufEvictIndex_m(ht, d) == ht
allocBufEvictIndex(ht, d) == hashRemove(ht, d.file, d.pageNo)

\* allocBufWriteback_m: an eviction that forgets the writePage of a dirty page.
allocBufWriteback_m(d) == <<>>
allocBufWriteback(d) == IF d.dirty THEN <<Ev("write", d.file, d.pageNo)>> ELSE <<>>

AllocOut(tbl, ht, hand, frame, result, steps, pcount, evicted, ev) ==
  [tbl |-> tbl, ht |-> ht, hand |-> hand, frame |-> frame, result |-> result,
   steps |-> steps, pcount |-> pcount, evicted |-> evicted, events |-> ev]

RECURSIVE allocBufScan(_, _, _, _, _)
allocBufScan(tbl, ht, hand, pcount, steps) ==
  LET h == advanceClock(hand)
      d == tbl[h]
      n == steps + 1
  IN  IF steps >= ScanLimit
        THEN AllocOut(tbl, ht, hand, NoFrame, "Diverged", steps, pcount, FALSE, <<>>)
      ELSE IF allocBufExceeded(pcount)
        THEN AllocOut(tbl, ht, h, NoFrame, "BufferExceeded", n, pcount, FALSE, <<>>)
      ELSE IF ~d.valid
        THEN AllocOut([tbl EXCEPT ![h] = BufDescClear], ht, h, h, "ok", n, pcount, FALSE, <<>>)
      ELSE IF allocBufPinned(d)
        THEN allocBufScan(tbl, ht, h, pcount + 1, n)
      ELSE IF d.refbit
        THEN allocBufScan([tbl EXCEPT ![h].refbit = FALSE], ht, h, pcount, n)
      ELSE LET wr == allocBufWriteback(d)
           IN  IF ~hashPresent(ht, d.file, d.pageNo)
                 THEN AllocOut(tbl, ht, h, NoFrame, "HashNotFound", n, pcount, FALSE, wr)
                 ELSE AllocOut([tbl EXCEPT ![h] = BufDescClear],
                               allocBufEvictIndex(ht, d), h, h, "ok", n, pcount, TRUE,
                               Append(wr, Ev("remove", d.file, d.pageNo)))

\* The frames a scan has examined: it reads the descriptor under the hand
\* after every advance but the one that is followed by the throw.
allocBufExamined(result, steps) == IF result = "BufferExceeded" THEN steps - 1 ELSE steps

\* allocBuf_m: a scan that starts every call from the hand's initial position.
allocBuf_m(tbl, ht, hand) == allocBufScan(tbl, ht, NumBufs - 1, 0, 0)
allocBuf(tbl, ht, hand) == allocBufScan(tbl, ht, hand, 0, 0)

\* ---- the outcome of the call in flight: the method, its arguments, the
\* exception or "ok", the frame it settled on, the clock advances and pinned
\* encounters of its allocBuf scan, and the collaborator calls it made ----
LastRec(op, file, pageNo, dirty, result, frame, steps, pcount, evicted, ev) ==
  [op |-> op, file |-> file, page |-> pageNo, dirty |-> dirty, result |-> result,
   frame |-> frame, steps |-> steps, pcount |-> pcount, evicted |-> evicted,
   events |-> ev]

NoCall == LastRec("none", NoFile, NoPage, FALSE, "ok", NoFrame, 0, 0, FALSE, <<>>)

\* the manager is alive and no call is in flight: the caller may call a method
Idle == alive /\ last = NoCall

Init ==
  /\ bufDescTable = [i \in Frames |-> BufDescClear]
  /\ hashTable = {}
  /\ clockHand = NumBufs - 1
  /\ allocated \in [Files -> SUBSET Pages]
  /\ alive = TRUE
  /\ last = NoCall

\* ---- readPage ----
\* readPageHit_m: a readPage that never finds the page in the index.
readPageHit_m(ht, file, pageNo) == FALSE
readPageHit(ht, file, pageNo) == hashPresent(ht, file, pageNo)

\* readPagePin_m: a hit that leaves the pin count as it was.
readPagePin_m(d) == d.pinCnt
readPagePin(d) == d.pinCnt + 1

ReadPage(file, pageNo) ==
  /\ Idle
  /\ IF readPageHit(hashTable, file, pageNo)
       THEN LET i == hashLookup(hashTable, file, pageNo)
            IN  /\ bufDescTable[i].pinCnt < MaxPin
                /\ bufDescTable' = [bufDescTable EXCEPT ![i].refbit = TRUE,
                                                        ![i].pinCnt = readPagePin(bufDescTable[i])]
                /\ last' = LastRec("readPage", file, pageNo, FALSE, "ok", i, 0, 0, FALSE, <<>>)
                /\ UNCHANGED <<hashTable, clockHand>>
       ELSE LET r == allocBuf(bufDescTable, hashTable, clockHand)
                i == r.frame
            IN  /\ clockHand' = r.hand
                /\ IF r.result # "ok"
                     THEN /\ bufDescTable' = r.tbl
                          /\ hashTable' = r.ht
                          /\ last' = LastRec("readPage", file, pageNo, FALSE, r.result,
                                             NoFrame, r.steps, r.pcount, r.evicted, r.events)
                   ELSE IF ~fileHasPage(allocated, file, pageNo)
                     THEN /\ bufDescTable' = r.tbl
                          /\ hashTable' = r.ht
                          /\ last' = LastRec("readPage", file, pageNo, FALSE, "IOError",
                                             i, r.steps, r.pcount, r.evicted, r.events)
                   ELSE IF hashPresent(r.ht, file, pageNo)
                     THEN /\ bufDescTable' = r.tbl
                          /\ hashTable' = r.ht
                          /\ last' = LastRec("readPage", file, pageNo, FALSE, "HashAlreadyPresent",
                                             i, r.steps, r.pcount, r.evicted,
                                             Append(r.events, Ev("read", file, pageNo)))
                   ELSE   /\ bufDescTable' = [r.tbl EXCEPT ![i] = BufDescSet(file, pageNo)]
                          /\ hashTable' = hashInsert(r.ht, file, pageNo, i)
                          /\ last' = LastRec("readPage", file, pageNo, FALSE, "ok",
                                             i, r.steps, r.pcount, r.evicted,
                                             r.events \o <<Ev("read", file, pageNo),
                                                           Ev("insert", file, pageNo)>>)
  /\ UNCHANGED <<allocated, alive>>

\* ---- unPinPage ----
\* unPinDirty_m: an unPinPage that assigns the argument to the dirty flag.
unPinDirty_m(d, dirty) == dirty
unPinDirty(d, dirty) == IF dirty THEN TRUE ELSE d.dirty

\* unPinNotPinned_m: an unPinPage that never finds the pin count at zero.
unPinNotPinned_m(d) == FALSE
unPinNotPinned(d) == d.pinCnt = 0

UnPinPage(file, pageNo, dirty) ==
  /\ Idle
  /\ LET f == hashLookup(hashTable, file, pageNo)
     IN  IF f = NoFrame
           THEN /\ last' = LastRec("unPinPage", file, pageNo, dirty, "ok", NoFrame,
                                   0, 0, FALSE, <<>>)
                /\ UNCHANGED bufDescTable
         ELSE IF unPinNotPinned(bufDescTable[f])
           THEN /\ last' = LastRec("unPinPage", file, pageNo, dirty, "PageNotPinned", f,
                                   0, 0, FALSE, <<>>)
                /\ UNCHANGED bufDescTable
         ELSE   /\ bufDescTable' =
                     [bufDescTable EXCEPT ![f].dirty = unPinDirty(bufDescTable[f], dirty),
                                          ![f].pinCnt = @ - 1]
                /\ last' = LastRec("unPinPage", file, pageNo, dirty, "ok", f,
                                   0, 0, FALSE, <<>>)
  /\ UNCHANGED <<hashTable, clockHand, allocated, alive>>

\* ---- flushFile ----
FlushOut(tbl, ht, result, frame, ev) ==
  [tbl |-> tbl, ht |-> ht, result |-> result, frame |-> frame, events |-> ev]

\* flushFilePinned_m: a pin test that lets a single pin through;
\* flushFileClear_m: a flush that only marks the frame invalid.
flushFilePinned_m(d) == d.pinCnt > 1
flushFilePinned(d) == d.pinCnt > 0

flushFileClear_m(d) == [d EXCEPT !.valid = FALSE]
flushFileClear(d) == BufDescClear

RECURSIVE flushFileScan(_, _, _, _, _)
flushFileScan(tbl, ht, file, i, ev) ==
  IF i = NumBufs THEN FlushOut(tbl, ht, "ok", NoFrame, ev)
  ELSE IF tbl[i].file # file THEN flushFileScan(tbl, ht, file, i + 1, ev)
  ELSE IF ~tbl[i].valid THEN FlushOut(tbl, ht, "BadBuffer", i, ev)
  ELSE IF flushFilePinned(tbl[i]) THEN FlushOut(tbl, ht, "PagePinned", i, ev)
  ELSE IF tbl[i].dirty
    THEN LET wr == Append(ev, Ev("write", file, tbl[i].pageNo))
         IN  IF ~hashPresent(ht, file, tbl[i].pageNo)
               THEN FlushOut([tbl EXCEPT ![i].dirty = FALSE], ht, "HashNotFound", i, wr)
               ELSE flushFileScan([tbl EXCEPT ![i] = flushFileClear(tbl[i])],
                                  hashRemove(ht, file, tbl[i].pageNo), file, i + 1,
                                  Append(wr, Ev("remove", file, tbl[i].pageNo)))
  ELSE flushFileScan(tbl, ht, file, i + 1, ev)

flushFile(tbl, ht, file) == flushFileScan(tbl, ht, file, 0, <<>>)

FlushFile(file) ==
  /\ Idle
  /\ LET r == flushFile(bufDescTable, hashTable, file)
     IN  /\ bufDescTable' = r.tbl
         /\ hashTable' = r.ht
         /\ last' = LastRec("flushFile", file, NoPage, FALSE, r.result, r.frame,
                            0, 0, FALSE, r.events)
  /\ UNCHANGED <<clockHand, allocated, alive>>

\* ---- allocPage ----
AllocPage(file) ==
  /\ Idle
  /\ \E pageNo \in Pages \ allocated[file] :
       LET r == allocBuf(bufDescTable, hashTable, clockHand)
           f == r.frame
           al == Ev("allocate", file, pageNo)
       IN  /\ allocated' = [allocated EXCEPT ![file] = @ \cup {pageNo}]
           /\ clockHand' = r.hand
           /\ IF r.result # "ok"
                THEN /\ bufDescTable' = r.tbl
                     /\ hashTable' = r.ht
                     /\ last' = LastRec("allocPage", file, pageNo, FALSE, r.result, NoFrame,
                                        r.steps, r.pcount, r.evicted, <<al>> \o r.events)
              ELSE IF hashPresent(r.ht, file, pageNo)
                THEN /\ bufDescTable' = r.tbl
                     /\ hashTable' = r.ht
                     /\ last' = LastRec("allocPage", file, pageNo, FALSE, "HashAlreadyPresent",
                                        f, r.steps, r.pcount, r.evicted, <<al>> \o r.events)
              ELSE   /\ bufDescTable' = [r.tbl EXCEPT ![f] = BufDescSet(file, pageNo)]
                     /\ hashTable' = hashInsert(r.ht, file, pageNo, f)
                     /\ last' = LastRec("allocPage", file, pageNo, FALSE, "ok", f,
                                        r.steps, r.pcount, r.evicted,
                                        (<<al>> \o r.events) \o <<Ev("insert", file, pageNo)>>)
  /\ UNCHANGED alive

\* ---- disposePage ----
\* disposePageFound_m: a disposePage that goes on after a failed lookup;
\* disposePageClear_m: a disposePage that only marks the frame invalid.
disposePageFound_m(ht, file, PageNo) == TRUE
disposePageFound(ht, file, PageNo) == hashPresent(ht, file, PageNo)

disposePageClear_m(d) == [d EXCEPT !.valid = FALSE]
disposePageClear(d) == BufDescClear

DisposePage(file, PageNo) ==
  /\ Idle
  /\ LET fid == hashLookup(hashTable, file, PageNo)
     IN  IF ~disposePageFound(hashTable, file, PageNo)
           THEN /\ last' = LastRec("disposePage", file, PageNo, FALSE, "ok", NoFrame,
                                   0, 0, FALSE, <<>>)
                /\ UNCHANGED <<bufDescTable, hashTable, allocated>>
           ELSE /\ bufDescTable' = [i \in Frames |->
                                     IF i = fid THEN disposePageClear(bufDescTable[i])
                                                ELSE bufDescTable[i]]
                /\ hashTable' = hashRemove(hashTable, file, PageNo)
                /\ allocated' = [allocated EXCEPT ![file] = @ \ {PageNo}]
                /\ last' = LastRec("disposePage", file, PageNo, FALSE, "ok", fid,
                                   0, 0, FALSE,
                                   <<Ev("remove", file, PageNo), Ev("delete", file, PageNo)>>)
  /\ UNCHANGED <<clockHand, alive>>

\* ---- ~BufMgr ----
RECURSIVE destructorWrites(_, _)
destructorWrites(tbl, i) ==
  IF i = NumBufs THEN <<>>
  ELSE IF tbl[i].dirty
    THEN <<Ev("write", tbl[i].file, tbl[i].pageNo)>> \o destructorWrites(tbl, i + 1)
  ELSE destructorWrites(tbl, i + 1)

Destructor ==
  /\ Idle
  /\ alive' = FALSE
  /\ last' = LastRec("destructor", NoFile, NoPage, FALSE, "ok", NoFrame, 0, 0, FALSE,
                     destructorWrites(bufDescTable, 0))
  /\ UNCHANGED <<bufDescTable, hashTable, clockHand, allocated>>

\* ---- the caller takes the outcome (return value or exception) of its call ----
Return ==
  /\ alive
  /\ last # NoCall
  /\ last' = NoCall
  /\ UNCHANGED <<bufDescTable, hashTable, clockHand, allocated, alive>>

Next ==
  \/ \E file \in Files, pageNo \in Pages : ReadPage(file, pageNo)
  \/ \E file \in Files, pageNo \in Pages, dirty \in BOOLEAN : UnPinPage(file, pageNo, dirty)
  \/ \E file \in Files \cup {NoFile} : FlushFile(file)
  \/ \E file \in Files : AllocPage(file)
  \/ \E file \in Files, pageNo \in Pages : DisposePage(file, pageNo)
  \/ Destructor
  \/ Return

Spec == Init /\ [][Next]_vars

\* ---- helpers for the properties ----
Key(d) == <<d.file, d.pageNo>>

EventSet(r) == {r.events[k] : k \in 1 .. Len(r.events)}

Wrote(r, file, pageNo) == Ev("write", file, pageNo) \in EventSet(r)

TypeOK ==
  /\ clockHand \in Frames
  /\ alive \in BOOLEAN
  /\ \A i \in Frames : bufDescTable[i].pinCnt \in 0 .. MaxPin

Scanned(r) == r.op \in {"readPage", "allocPage"} /\ r.steps > 0

AllPinned(tbl) == \A i \in Frames : tbl[i].valid /\ tbl[i].pinCnt > 0

Resident(tbl, file) == {i \in Frames : tbl[i].valid /\ tbl[i].file = file}

\* C1: every frame allocBuf returns was free or had pinCnt = 0 in the state
\* the call started from (the scan never changes a pin count).
C1_NoPinnedVictim ==
  [][(Scanned(last') /\ last'.frame # NoFrame)
       => (~bufDescTable[last'.frame].valid \/ bufDescTable[last'.frame].pinCnt = 0)]_vars

C1_Witness ==
  /\ last.op = "readPage" /\ last.result = "ok"
  /\ last.evicted /\ last.pcount > 0

\* C2: a frame is valid iff the index holds exactly one entry for its
\* (file, pageNo) and that entry names the frame; every index entry names a
\* valid frame that holds the entry's (file, page).
C2_IndexAgrees ==
  /\ \A i \in Frames :
       bufDescTable[i].valid <=>
         {e \in hashTable : e.file = bufDescTable[i].file /\ e.page = bufDescTable[i].pageNo}
           = {HashEntry(bufDescTable[i].file, bufDescTable[i].pageNo, i)}
  /\ \A e \in hashTable :
       /\ e.frame \in Frames
       /\ bufDescTable[e.frame].valid
       /\ bufDescTable[e.frame].file = e.file
       /\ bufDescTable[e.frame].pageNo = e.page

C2_Witness ==
  /\ last.op = "readPage" /\ last.result = "ok" /\ last.evicted
  /\ Cardinality(hashTable) = NumBufs

\* C3: no two valid frames hold the same (file, pageNo), and no call ever
\* inserts a key the index already holds.
C3_AtMostOneFrame ==
  /\ \A i, j \in Frames :
       (i # j /\ bufDescTable[i].valid /\ bufDescTable[j].valid)
         => Key(bufDescTable[i]) # Key(bufDescTable[j])
  /\ last.result # "HashAlreadyPresent"

C3_Witness ==
  /\ last.op = "readPage" /\ last.result = "ok" /\ last.steps = 0
  /\ bufDescTable[last.frame].pinCnt = 2
  /\ \A i \in Frames : bufDescTable[i].valid

\* C4: unPinPage(.., true) on a pinned page leaves the frame dirty; a dirty
\* frame stops being dirty, or changes its page, only in a call that wrote its
\* page back or in disposePage of that page; the destructor writes back every
\* dirty frame.
C4_DirtyKept ==
  [][/\ (last'.op = "unPinPage" /\ last'.dirty /\ last'.result = "ok"
           /\ last'.frame # NoFrame)
          => bufDescTable'[last'.frame].dirty
     /\ \A i \in Frames :
          (bufDescTable[i].dirty
             /\ (~bufDescTable'[i].dirty \/ Key(bufDescTable'[i]) # Key(bufDescTable[i])))
            => \/ Wrote(last', bufDescTable[i].file, bufDescTable[i].pageNo)
               \/ /\ last'.op = "disposePage"
                  /\ last'.file = bufDescTable[i].file
                  /\ last'.page = bufDescTable[i].pageNo
     /\ (alive /\ ~alive')
          => \A i \in Frames :
               bufDescTable[i].dirty
                 => Wrote(last', bufDescTable[i].file, bufDescTable[i].pageNo)]_vars

C4_Witness ==
  /\ last.op = "unPinPage" /\ ~last.dirty /\ last.result = "ok"
  /\ last.frame # NoFrame
  /\ bufDescTable[last.frame].dirty

\* C5: allocBuf throws BufferExceededException only from a state in which
\* every frame is valid and pinned.
C5_ExceededOnlyWhenAllPinned ==
  [][(Scanned(last') /\ last'.result = "BufferExceeded") => AllPinned(bufDescTable)]_vars

\* C6: every allocBuf call ends with a frame or BufferExceededException after
\* at most 2 * NumBufs advances of the clock hand.
C6_ScanBound ==
  Scanned(last) =>
    /\ last.steps <= 2 * NumBufs
    /\ last.result # "Diverged"
    /\ (last.frame # NoFrame \/ last.result = "BufferExceeded")

C6_Witness ==
  /\ Scanned(last) /\ last.steps = 2 * NumBufs

\* C7: after flushFile(file) returns without error no frame holds a page of
\* file and the index holds no entry of file.
C7_FlushFreesAll ==
  (last.op = "flushFile" /\ last.result = "ok" /\ last.file \in Files)
    => /\ Resident(bufDescTable, last.file) = {}
       /\ \A e \in hashTable : e.file # last.file

\* C8: a flushFile that throws PagePinnedException has changed no descriptor
\* and no index entry and has written nothing back.
C8_FlushFailsClean ==
  [][(last'.op = "flushFile" /\ last'.result = "PagePinned")
       => /\ bufDescTable' = bufDescTable
          /\ hashTable' = hashTable
          /\ last'.events = <<>>]_vars

\* C9: a readPage that throws BufferExceededException has changed no
\* descriptor and no index entry and has written nothing back.
C9_ReadFailsClean ==
  [][(last'.op = "readPage" /\ last'.result = "BufferExceeded")
       => /\ bufDescTable' = bufDescTable
          /\ hashTable' = hashTable
          /\ \A k \in 1 .. Len(last'.events) : last'.events[k].e # "write"]_vars

\* C10: an allocPage that throws BufferExceededException has allocated no
\* page in the file and has changed no descriptor and no index entry.
C10_AllocFailsClean ==
  [][(last'.op = "allocPage" /\ last'.result = "BufferExceeded")
       => /\ allocated' = allocated
          /\ bufDescTable' = bufDescTable
          /\ hashTable' = hashTable]_vars

\* C11: a successful readPage leaves its page with one pin more than before
\* (a page that was not resident counts as zero pins) and a successful
\* unPinPage of a resident page leaves it with one pin less, so a page whose
\* pins are all returned has pinCnt = 0.
C11_PinBalance ==
  [][/\ (last'.op = "readPage" /\ last'.result = "ok")
          => /\ bufDescTable'[last'.frame].valid
             /\ Key(bufDescTable'[last'.frame]) = <<last'.file, last'.page>>
             /\ bufDescTable'[last'.frame].pinCnt =
                  IF last'.steps = 0 THEN bufDescTable[last'.frame].pinCnt + 1 ELSE 1
     /\ (last'.op = "unPinPage" /\ last'.result = "ok" /\ last'.frame # NoFrame)
          => /\ bufDescTable[last'.frame].pinCnt > 0
             /\ bufDescTable'[last'.frame].pinCnt = bufDescTable[last'.frame].pinCnt - 1
             /\ Key(bufDescTable'[last'.frame]) = <<last'.file, last'.page>>]_vars

\* an unPinPage has returned the last pin of a page that stays resident
C11_Witness ==
  /\ last.op = "unPinPage" /\ last.result = "ok" /\ last.frame # NoFrame
  /\ bufDescTable[last.frame].pinCnt = 0
  /\ bufDescTable[last.frame].valid

\* C12: unPinPage of a resident page with pinCnt = 0 throws
\* PageNotPinnedException and unPinPage of a page that is not resident returns
\* without error; both leave every descriptor, the index and the clock hand as
\* they were (the dirty flag is not set), and no pin count is ever negative.
C12_UnPinGuard ==
  [][/\ (last'.op = "unPinPage")
          => /\ (hashLookup(hashTable, last'.file, last'.page) = NoFrame)
                  => (last'.result = "ok" /\ last'.frame = NoFrame)
             /\ (/\ hashLookup(hashTable, last'.file, last'.page) # NoFrame
                 /\ bufDescTable[hashLookup(hashTable, last'.file, last'.page)].pinCnt = 0)
                  => last'.result = "PageNotPinned"
             /\ (last'.result = "PageNotPinned" \/ last'.frame = NoFrame)
                  => /\ bufDescTable' = bufDescTable
                     /\ hashTable' = hashTable
                     /\ clockHand' = clockHand
     /\ \A i \in Frames : bufDescTable'[i].pinCnt >= 0]_vars

\* unPinPage(.., true) was refused on a clean page with no pin
C12_Witness ==
  /\ last.op = "unPinPage" /\ last.dirty /\ last.result = "PageNotPinned"
  /\ ~bufDescTable[last.frame].dirty

\* C13: from a state in which every frame is valid and pinned, readPage of a
\* page that is not resident and allocPage throw BufferExceededException, and
\* every descriptor and index entry is left as it was.
C13_SaturatedPool ==
  [][(/\ AllPinned(bufDescTable)
      /\ \/ last'.op = "allocPage"
         \/ (last'.op = "readPage" /\ ~hashPresent(hashTable, last'.file, last'.page)))
       => /\ last'.result = "BufferExceeded"
          /\ bufDescTable' = bufDescTable
          /\ hashTable' = hashTable]_vars

C13_Witness ==
  /\ last.op = "readPage" /\ last.result = "BufferExceeded"
  /\ AllPinned(bufDescTable)
  /\ ~hashPresent(hashTable, last.file, last.page)

\* C14: flushFile(file) throws PagePinnedException exactly when, in the state
\* it is called from, some valid frame of file has pinCnt > 0; pinned frames of
\* other files do not matter.
C14_FlushPinned ==
  [][(last'.op = "flushFile")
       => (last'.result = "PagePinned"
             <=> \E i \in Resident(bufDescTable, last'.file) : bufDescTable[i].pinCnt > 0)]_vars

\* flushFile of a file has written back and returned while a page of another
\* file was pinned
C14_Witness ==
  /\ last.op = "flushFile" /\ last.result = "ok" /\ last.file \in Files
  /\ last.events # <<>>
  /\ \E i \in Frames :
       /\ bufDescTable[i].valid /\ bufDescTable[i].pinCnt > 0
       /\ bufDescTable[i].file # last.file

\* C15: a readPage that evicts a dirty frame calls writePage for the victim's
\* page first, then removes the victim from the index, and only then reads the
\* new page; a readPage that evicts a clean frame calls no writePage.
C15_WritebackFirst ==
  [][(last'.op = "readPage" /\ last'.evicted)
       => LET d == bufDescTable[last'.frame]
              ev == last'.events
          IN  IF d.dirty
                THEN /\ Len(ev) >= 2
                     /\ ev[1] = Ev("write", d.file, d.pageNo)
                     /\ ev[2] = Ev("remove", d.file, d.pageNo)
                     /\ \A k \in 1 .. Len(ev) : ev[k].e \in {"read", "insert"} => k > 2
                     /\ last'.result = "ok" => ev[3] = Ev("read", last'.file, last'.page)
                ELSE /\ \A k \in 1 .. Len(ev) : ev[k].e # "write"
                     /\ Len(ev) >= 1
                     /\ ev[1] = Ev("remove", d.file, d.pageNo)]_vars

C15_Witness ==
  /\ last.op = "readPage" /\ last.result = "ok" /\ last.evicted
  /\ \E k \in 1 .. Len(last.events) : last.events[k].e = "write"

\* C16: disposePage of a resident page clears its descriptor, removes its
\* index entry and then calls deletePage, with no writePage even when the page
\* is dirty; disposePage of a page that is not resident changes no descriptor
\* and no index entry and does not call deletePage.
C16_DisposeForwards ==
  [][(last'.op = "disposePage")
       => LET fid == hashLookup(hashTable, last'.file, last'.page)
          IN  IF fid # NoFrame
                THEN /\ bufDescTable'[fid] = BufDescClear
                     /\ \A i \in Frames \ {fid} : bufDescTable'[i] = bufDescTable[i]
                     /\ ~hashPresent(hashTable', last'.file, last'.page)
                     /\ last'.events = <<Ev("remove", last'.file, last'.page),
                                         Ev("delete", last'.file, last'.page)>>
                     /\ last'.page \notin allocated'[last'.file]
                ELSE /\ bufDescTable' = bufDescTable
                     /\ hashTable' = hashTable
                     /\ allocated' = allocated
                     /\ last'.events = <<>>]_vars

\* a page that was not resident was disposed of and is still in its file
C16_Witness ==
  /\ last.op = "disposePage" /\ last.frame = NoFrame
  /\ last.page \in allocated[last.file]

\* C17: in every reachable state a frame that is not valid has pinCnt = 0,
\* dirty = false and no file.
C17_FreeFrameReset ==
  \A i \in Frames :
    ~bufDescTable[i].valid
      => /\ bufDescTable[i].pinCnt = 0
         /\ ~bufDescTable[i].dirty
         /\ bufDescTable[i].file = NoFile

\* disposePage has freed the frame of a resident page
C17_Witness ==
  /\ last.op = "disposePage" /\ last.frame # NoFrame
  /\ ~bufDescTable[last.frame].valid

\* the number of times a scan of `steps` advances from `hand` examines frame v
Visits(hand, steps, v) == Cardinality({k \in 1 .. steps : (hand + k) % NumBufs = v})

\* C18 (amended): the clock hand moves only in allocBuf scans and a scan
\* advances through the frames that follow the hand left by the previous scan,
\* ending on the frame it returns; a valid frame it evicts had pinCnt = 0 and was examined once if
\* its refbit was clear and twice if it was set (the first encounter only
\* cleared the refbit); every other unpinned frame with refbit set that the
\* scan examined stays resident with nothing but its refbit cleared.
C18_SecondChance ==
  [][/\ clockHand' = IF Scanned(last') THEN (clockHand + last'.steps) % NumBufs
                                       ELSE clockHand
     /\ (Scanned(last') /\ last'.frame # NoFrame) => last'.frame = clockHand'
     /\ last'.evicted
          => /\ bufDescTable[last'.frame].valid
             /\ bufDescTable[last'.frame].pinCnt = 0
             /\ Visits(clockHand, last'.steps, last'.frame) =
                  IF bufDescTable[last'.frame].refbit THEN 2 ELSE 1
     /\ \A i \in Frames :
          (/\ bufDescTable[i].valid /\ bufDescTable[i].pinCnt = 0 /\ bufDescTable[i].refbit
           /\ Scanned(last') /\ Visits(clockHand, last'.steps, i) >= 1
           /\ i # last'.frame)
            => /\ bufDescTable'[i] = [bufDescTable[i] EXCEPT !.refbit = FALSE]
               /\ hashLookup(hashTable', bufDescTable[i].file, bufDescTable[i].pageNo) = i]_vars

\* C18 (as claimed): after every scan the hand rests on the last frame the
\* scan examined, so that the next scan starts at the frame after it.
C18_HandOnLastExamined ==
  [][Scanned(last')
       => clockHand' =
            (clockHand + allocBufExamined(last'.result, last'.steps)) % NumBufs]_vars

\* a frame was evicted on its second encounter in one scan
C18_Witness ==
  /\ last.evicted /\ last.result = "ok"
  /\ last.steps > NumBufs

\* C19: a frame that is valid with pinCnt > 0 before a call is, after the call,
\* still valid for the same page and still the frame the index gives for it.
C19_PinnedStays ==
  [][\A i \in Frames :
       (bufDescTable[i].valid /\ bufDescTable[i].pinCnt > 0)
         => /\ bufDescTable'[i].valid
            /\ Key(bufDescTable'[i]) = Key(bufDescTable[i])
            /\ hashLookup(hashTable', bufDescTable[i].file, bufDescTable[i].pageNo) = i]_vars

\* C20: no frame names a file while it is not valid, and flushFile of a file
\* never throws BadBufferException.
C20_NoBadBuffer ==
  /\ \A i \in Frames : bufDescTable[i].file \in Files => bufDescTable[i].valid
  /\ (last.op = "flushFile" /\ last.file \in Files) => last.result # "BadBuffer"

\* flushFile of a file has freed a frame of that file and returned
C20_Witness ==
  /\ last.op = "flushFile" /\ last.file \in Files /\ last.result = "ok"
  /\ \E k \in 1 .. Len(last.events) : last.events[k].e = "remove"
  /\ \E i \in Frames : ~bufDescTable[i].valid

====
